---- MODULE Spec2Model ----
(***************************************************************************)
(* Model of the SSH chat server (createServer and its connection           *)
(* handlers): nickname negotiation during authentication, the registry of  *)
(* connected streams (users), the fan-out of messages and join/leave       *)
(* notices, and the processing of submitted lines.                         *)
(*                                                                         *)
(* Text is modelled as a sequence of character codes, so that length,      *)
(* toLowerCase, replace, trim and substring are computed, not assumed.     *)
(***************************************************************************)
EXTENDS Integers, Sequences, FiniteSets, TLC

\* ---------------------------------------------------------------- bounds
MaxConns == 2        \* number of client connections
MaxSubmits == 1      \* total number of submitted lines in a behaviour
MaxTok == 2          \* number of tokens after the padding of a sanitizer input
PadSlack == 1        \* padding lengths range over MAX_MSG_LEN -+ PadSlack

\* ------------------------------------------------------ program constants
MAX_MSG_LEN == 128
MAX_NAME_LEN == 10

Conns == 1..MaxConns

\* ------------------------------------------------------------ characters
ESC == 27
LBRACKET == 91
SPACE == 32

\* "undefined" of JavaScript for a text variable: no character has code -1
Undefined == <<-1>>

Str_Alice == <<65, 108, 105, 99, 101>>
Str_alice == <<97, 108, 105, 99, 101>>
Str_ten == <<97, 98, 99, 100, 101, 102, 103, 104, 105, 106>>
Str_eleven == <<97, 98, 99, 100, 101, 102, 103, 104, 105, 106, 107>>
Str_quit == <<47, 113, 117, 105, 116>>
Str_exit == <<47, 101, 120, 105, 116>>
Str_hi == <<104, 105>>

\* usernames and prompt answers the remote party may send
NameInputs == {<<>>, Str_Alice, Str_alice, Str_ten, Str_eleven}

\* authentication methods of ssh2
Methods == {"none", "keyboard-interactive"}

\* lines a member may submit in the chat
SubmitLines ==
  { Str_hi, Str_quit, Str_exit, <<SPACE>>, <<SPACE>> \o Str_quit \o <<SPACE>>,
    <<7, SPACE, ESC>> }

VARIABLES
  users,     \* the registry: sequence of connections whose stream was pushed
  pc,        \* per connection: position in the connection's life
  name,      \* per connection: the closure variable name
  stream,    \* per connection: "undefined", "open" or "ended"
  sname,     \* per connection: stream.name
  output,    \* per connection: lines added to stream.output
  answer,    \* per connection: what ctx answered last (accept/reject/prompt)
  prompt,    \* per connection: text of the prompt issued last
  sink,      \* connections whose stream.output is assigned
  broken,    \* connections whose output.add throws
  thrown,    \* the exception that left a handler: the loop it left, who the
             \* loop iterates and who had been written to (NoThrow: none)
  nsubmit,   \* number of lines submitted so far
  line,      \* sanitizer: the submitted line
  body,      \* sanitizer: the line after processing
  body2,     \* sanitizer: the processed line after processing it again
  sphase     \* sanitizer: "in", "out", "again"

vars == <<users, pc, name, stream, sname, output, sink, answer, prompt,
          broken, thrown, nsubmit, line, body, body2, sphase>>

chatVars == <<users, pc, name, stream, sname, output, sink, answer, prompt,
              broken, thrown, nsubmit>>
sanVars == <<line, body, body2, sphase>>

\* ------------------------------------------------------------- text helpers
Min(a, b) == IF a < b THEN a ELSE b

\* a comparison key that keeps capital letters
ToLowerCase_Identity(s) == s

\* String.prototype.toLowerCase on ASCII letters
ToLowerCase(s) ==
  [i \in 1..Len(s) |-> IF s[i] \in 65..90 THEN s[i] + 32 ELSE s[i]]

\* first alternative of RE_SPECIAL: [\x00-\x1F\x7F]
IsControl(ch) == ch \in 0..31 \/ ch = 127

IsDigit(ch) == ch \in 48..57

\* the class [m|K] of RE_SPECIAL: 'm', '|' or 'K'
IsFinal(ch) == ch \in {109, 124, 75}

At(s, i) == IF i \in 1..Len(s) THEN s[i] ELSE -1

\* the n characters from position i are all digits
AllDigits(s, i, n) == \A k \in 0..(n - 1) : IsDigit(At(s, i + k))

\* Second alternative of RE_SPECIAL at position i:
\*   \x1B\[([0-9]{1,2}(;[0-9]{1,2})?)?[m|K]
\* Length of the match, 0 when it does not match.  a is the number of digits
\* the first group takes and b the number the second takes (0: group absent).
\* The final class holds no digit and no ';', so at most one (a, b) matches.
MatchCsi(s, i) ==
  IF At(s, i) # ESC \/ At(s, i + 1) # LBRACKET THEN 0
  ELSE LET tail(a, b) == a + (IF b > 0 THEN 1 + b ELSE 0)
           ok(a, b) == /\ a = 0 => b = 0
                       /\ AllDigits(s, i + 2, a)
                       /\ b > 0 => /\ At(s, i + 2 + a) = 59
                                   /\ AllDigits(s, i + 3 + a, b)
                       /\ IsFinal(At(s, i + 2 + tail(a, b)))
           good == {c \in (0..2) \X (0..2) : ok(c[1], c[2])}
       IN IF good = {} THEN 0
          ELSE LET c == CHOOSE c \in good : TRUE IN 2 + tail(c[1], c[2]) + 1

\* end of the run [\x00-\x1F\x7F]+ that starts at i: the first position from
\* i on that holds no control character (Len(s) + 1 when there is none)
ControlEnd(s, i) ==
  CHOOSE j \in i..(Len(s) + 1) :
    /\ ~IsControl(At(s, j))
    /\ \A k \in i..(j - 1) : IsControl(s[k])

\* length of the match of RE_SPECIAL at position i, 0 when neither
\* alternative matches: the first alternative is tried before the second
MatchSpecial(s, i) ==
  IF IsControl(At(s, i)) THEN ControlEnd(s, i) - i ELSE MatchCsi(s, i)

\* the first position from i on where RE_SPECIAL matches (Len(s) + 1 when
\* there is none): the characters before it are kept
NextMatch(s, i) ==
  CHOOSE j \in i..(Len(s) + 1) :
    /\ j = Len(s) + 1 \/ MatchSpecial(s, j) > 0
    /\ \A k \in i..(j - 1) : MatchSpecial(s, k) = 0

\* line.replace(RE_SPECIAL, "") from position i on: keep the text up to the
\* next match, drop the match, go on after it
RECURSIVE ReplaceFrom(_, _)
ReplaceFrom(s, i) ==
  IF i > Len(s) THEN <<>>
  ELSE LET j == NextMatch(s, i)
       IN IF j > Len(s) THEN SubSeq(s, i, Len(s))
          ELSE SubSeq(s, i, j - 1) \o ReplaceFrom(s, j + MatchSpecial(s, j))

ReplaceSpecial(s) == ReplaceFrom(s, 1)

\* WhiteSpace and LineTerminator of ECMAScript, what trim() removes
IsSpace(ch) ==
  ch \in {9, 10, 11, 12, 13, 32, 160, 5760, 8232, 8233, 8239, 8287, 12288,
          65279} \cup (8192..8202)

RECURSIVE TrimStart(_)
TrimStart(s) ==
  IF s # <<>> /\ IsSpace(Head(s)) THEN TrimStart(Tail(s)) ELSE s

RECURSIVE TrimEnd(_)
TrimEnd(s) ==
  IF s # <<>> /\ IsSpace(s[Len(s)]) THEN TrimEnd(SubSeq(s, 1, Len(s) - 1))
  ELSE s

Trim(s) == TrimEnd(TrimStart(s))

\* a cut that keeps one character too many
Substring0_OffByOne(s, n) == SubSeq(s, 1, Min(Len(s), n + 1))

\* line.substring(0, n)
Substring0(s, n) == SubSeq(s, 1, Min(Len(s), n))

\* lines 270-272: replace, trim, then cut to MAX_MSG_LEN
ProcessLine(l) ==
  LET t == Trim(ReplaceSpecial(l))
  IN IF Len(t) > MAX_MSG_LEN THEN Substring0(t, MAX_MSG_LEN) ELSE t

\* a handler that has lost the test line.length > 0
SubmitKind_NoDiscard(b) ==
  IF b = Str_quit \/ b = Str_exit THEN "quit" ELSE "broadcast"

\* a handler that knows /quit only
SubmitKind_QuitOnly(b) ==
  IF Len(b) > 0 THEN (IF b = Str_quit THEN "quit" ELSE "broadcast")
  ELSE "discard"

\* lines 273-276: what the submit handler does with the processed line
SubmitKind(b) ==
  IF Len(b) > 0
  THEN (IF b = Str_quit \/ b = Str_exit THEN "quit" ELSE "broadcast")
  ELSE "discard"

\* ------------------------------------------------------------ the registry
\* users.indexOf(stream): position of c in us, -1 when it is absent
RECURSIVE IndexFrom(_, _, _)
IndexFrom(us, c, i) ==
  IF i > Len(us) THEN -1
  ELSE IF us[i] = c THEN i ELSE IndexFrom(us, c, i + 1)

\* a search that never finds the stream
IndexOf_Absent(us, c) == -1

IndexOf(us, c) == IndexFrom(us, c, 1)

\* a splice that removes nothing
Splice1_NoRemove(us, idx) == us

\* users.splice(idx, 1) with a 1-based idx; a negative idx counts from the
\* end of the array, so -1 removes the last element
Splice1(us, idx) ==
  LET k == IF idx < 0 THEN Len(us) ELSE idx
  IN IF k \in 1..Len(us)
     THEN SubSeq(us, 1, k - 1) \o SubSeq(us, k + 1, Len(us))
     ELSE us

Range(f) == {f[i] : i \in DOMAIN f}

\* a uniqueness test that finds every name in use once a user is registered
InUse_AnyMember(nick) == users # <<>>

\* a uniqueness test that finds no name in use
InUse_Never(nick) == FALSE

\* lines 98-105 and 147-154: some user's name equals nick in lower case
InUse(nick) ==
  \E i \in 1..Len(users) : ToLowerCase(sname[users[i]]) = ToLowerCase(nick)

\* ------------------------------------------------------------------ sinks
Entry(t, n, b, k) == [t |-> t, name |-> n, body |-> b, n |-> k]

NoThrow == [kind |-> "none", src |-> 0, reach |-> {}, done |-> {}]

\* An exception that leaves a handler is not caught anywhere: the process
\* ends and no handler runs after it.
Thrown(r, kind, src, reach) ==
  IF r.thrown THEN [kind |-> kind, src |-> src, reach |-> reach, done |-> r.done]
  ELSE NoThrow

\* A for-of loop over the users us that calls output.add(msgs[u]) on each:
\* an add that throws leaves the loop, the users after it are not written to.
RECURSIVE AddLoop(_, _, _, _)
AddLoop(out, us, msgs, brk) ==
  IF us = <<>> THEN [out |-> out, done |-> {}, thrown |-> FALSE]
  ELSE LET u == Head(us)
       IN IF u \in brk THEN [out |-> out, done |-> {}, thrown |-> TRUE]
          ELSE LET r == AddLoop([out EXCEPT ![u] = Append(@, msgs[u])],
                                Tail(us), msgs, brk)
               IN [r EXCEPT !.done = @ \cup {u}]

\* a broadcast whose loop passes over the source
UserBroadcast_OthersOnly(out, us, msg, source, brk) ==
  AddLoop(out, SelectSeq(us, LAMBDA u : u # source),
          [u \in Conns |-> Entry("msg", sname[source], msg, 0)], brk)

\* a broadcast that has lost the test source === user
UserBroadcast_NoEcho(out, us, msg, source, brk) ==
  AddLoop(out, us, [u \in Conns |-> Entry("msg", sname[source], msg, 0)], brk)

\* userBroadcast(msg, source): "> msg" to the source, "name: msg" to the rest
UserBroadcast(out, us, msg, source, brk) ==
  LET sourceMsg == Entry("echo", <<>>, msg, 0)
      named == Entry("msg", sname[source], msg, 0)
  IN AddLoop(out, us, [u \in Conns |-> IF u = source THEN sourceMsg ELSE named],
             brk)

\* a join loop that has lost its continue
JoinNotice_NoSkip(out, us, c, nm, brk) ==
  AddLoop(out, us, [u \in Conns |-> Entry("joined", nm, <<>>, 0)], brk)

\* lines 250-258: the join notice goes to every user but the new stream
JoinNotice(out, us, c, nm, brk) ==
  AddLoop(out, SelectSeq(us, LAMBDA u : u # c),
          [u \in Conns |-> Entry("joined", nm, <<>>, 0)], brk)

\* lines 285-292: the leave notice goes to every user of the registry
LeaveNotice(out, us, nm, brk) ==
  AddLoop(out, us, [u \in Conns |-> Entry("left", nm, <<>>, 0)], brk)

\* --------------------------------------------------------------- the state
InitChat ==
  /\ users = <<>>
  /\ pc = [c \in Conns |-> "connecting"]
  /\ name = [c \in Conns |-> Undefined]
  /\ stream = [c \in Conns |-> "undefined"]
  /\ sname = [c \in Conns |-> Undefined]
  /\ output = [c \in Conns |-> <<>>]
  /\ sink = {}
  /\ answer = [c \in Conns |-> "none"]
  /\ prompt = [c \in Conns |-> "none"]
  /\ broken = {}
  /\ thrown = NoThrow
  /\ nsubmit = 0

Init ==
  /\ InitChat
  /\ line = <<>>
  /\ body = <<>>
  /\ body2 = <<>>
  /\ sphase = "idle"

\* ------------------------------------------------------------ negotiation
\* a method test that lets every method be prompted
Interactive_Any(method) == TRUE

\* line 123: ctx.method is "keyboard-interactive"
Interactive(method) == method = "keyboard-interactive"

\* client.on("authentication"), lines 87-127: the first check of ctx.username
Authentication(c, nick, method) ==
  /\ thrown = NoThrow
  /\ pc[c] = "connecting"
  /\ LET lenOk == Len(nick) > 0 /\ Len(nick) <= MAX_NAME_LEN
         text == IF lenOk THEN "in use"
                 ELSE IF Len(nick) = 0 THEN "required" ELSE "too long"
     IN IF lenOk /\ ~InUse(nick)
        THEN /\ name' = [name EXCEPT ![c] = nick]
             /\ answer' = [answer EXCEPT ![c] = "accept"]
             /\ pc' = [pc EXCEPT ![c] = "authenticated"]
             /\ prompt' = [prompt EXCEPT ![c] = "none"]
        ELSE IF ~Interactive(method)
        THEN /\ answer' = [answer EXCEPT ![c] = "reject"]
             /\ UNCHANGED <<name, pc, prompt>>
        ELSE /\ answer' = [answer EXCEPT ![c] = "prompt"]
             /\ prompt' = [prompt EXCEPT ![c] = text]
             /\ pc' = [pc EXCEPT ![c] = "prompting"]
             /\ UNCHANGED name
  /\ UNCHANGED <<users, stream, sname, output, sink, broken, thrown, nsubmit>>
  /\ UNCHANGED sanVars

\* a length check that lets one character too many through
TooLong_OffByOne(nick) == Len(nick) > MAX_NAME_LEN + 1

\* line 133: the answer is longer than MAX_NAME_LEN
TooLong(nick) == Len(nick) > MAX_NAME_LEN

\* retryPrompt(answers), lines 127-157
RetryPrompt(c, answers) ==
  /\ thrown = NoThrow
  /\ pc[c] = "prompting"
  /\ IF Len(answers) = 0
     THEN /\ answer' = [answer EXCEPT ![c] = "reject"]
          /\ pc' = [pc EXCEPT ![c] = "connecting"]
          /\ prompt' = [prompt EXCEPT ![c] = "none"]
          /\ UNCHANGED name
     ELSE LET nick == answers[1]
          IN IF TooLong(nick)
             THEN /\ answer' = [answer EXCEPT ![c] = "prompt"]
                  /\ prompt' = [prompt EXCEPT ![c] = "too long"]
                  /\ UNCHANGED <<name, pc>>
             ELSE IF Len(nick) = 0
             THEN /\ answer' = [answer EXCEPT ![c] = "prompt"]
                  /\ prompt' = [prompt EXCEPT ![c] = "required"]
                  /\ UNCHANGED <<name, pc>>
             ELSE IF InUse(nick)
             THEN /\ answer' = [answer EXCEPT ![c] = "prompt"]
                  /\ prompt' = [prompt EXCEPT ![c] = "in use"]
                  /\ UNCHANGED <<name, pc>>
             ELSE /\ name' = [name EXCEPT ![c] = nick]
                  /\ answer' = [answer EXCEPT ![c] = "accept"]
                  /\ pc' = [pc EXCEPT ![c] = "authenticated"]
                  /\ prompt' = [prompt EXCEPT ![c] = "none"]
  /\ UNCHANGED <<users, stream, sname, output, sink, broken, thrown, nsubmit>>
  /\ UNCHANGED sanVars

\* client.on("ready"), lines 159-163: the session handler is installed
Ready(c) ==
  /\ thrown = NoThrow
  /\ pc[c] = "authenticated"
  /\ pc' = [pc EXCEPT ![c] = "ready"]
  /\ UNCHANGED <<users, name, stream, sname, output, sink, answer, prompt,
                 broken, thrown, nsubmit>>
  /\ UNCHANGED sanVars

\* client.once("session"), lines 163-181: accept() and install the handlers
Session(c) ==
  /\ thrown = NoThrow
  /\ pc[c] = "ready"
  /\ pc' = [pc EXCEPT ![c] = "session"]
  /\ UNCHANGED <<users, name, stream, sname, output, sink, answer, prompt,
                 broken, thrown, nsubmit>>
  /\ UNCHANGED sanVars

\* a shell handler that never assigns stream.output
AssignOutput_Never(s, c) == s

\* lines 206-213: stream.output = new blessed.log(...)
AssignOutput(s, c) == s \cup {c}

\* the users whose output.add throws: a sink that fails, or no sink at all
\* (user.output is undefined and output.add is a TypeError)
Throwing(snk, brk) == brk \cup (Conns \ snk)

\* once("shell"), lines 181-278: push the stream, welcome it, tell the others
Shell(c) ==
  /\ thrown = NoThrow
  /\ pc[c] = "session"
  /\ LET us == Append(users, c)
         welcome == Entry("welcome", <<>>, <<>>, Len(us) - 1)
         own == [output EXCEPT ![c] = Append(@, welcome)]
         snk == AssignOutput(sink, c)
         r == JoinNotice(own, us, c, name[c], Throwing(snk, broken))
     IN /\ users' = us
        /\ stream' = [stream EXCEPT ![c] = "open"]
        /\ sname' = [sname EXCEPT ![c] = name[c]]
        /\ sink' = snk
        /\ output' = r.out
        /\ thrown' = Thrown(r, "joined", c, Range(us) \ {c})
        /\ pc' = [pc EXCEPT ![c] = "active"]
  /\ UNCHANGED <<name, answer, prompt, broken, nsubmit>>
  /\ UNCHANGED sanVars

\* input.on("submit"), lines 266-277
Submit(c, l) ==
  /\ thrown = NoThrow
  /\ pc[c] = "active"
  /\ nsubmit < MaxSubmits
  /\ nsubmit' = nsubmit + 1
  /\ LET b == ProcessLine(l)
         kind == SubmitKind(b)
     IN IF kind = "quit"
        THEN /\ stream' = [stream EXCEPT ![c] = "ended"]
             /\ UNCHANGED <<output, thrown>>
        ELSE IF kind = "broadcast"
        THEN LET r == UserBroadcast(output, users, b, c, Throwing(sink, broken))
             IN /\ output' = r.out
                /\ thrown' = Thrown(r, "msg", c, Range(users))
                /\ UNCHANGED stream
        ELSE UNCHANGED <<stream, output, thrown>>
  /\ UNCHANGED <<users, pc, name, sname, sink, answer, prompt, broken>>
  /\ UNCHANGED sanVars

\* a close handler that has lost its test of stream
HasStream_Always(c) == TRUE

\* line 282: stream !== undefined
HasStream(c) == stream[c] # "undefined"

\* client.on("close"), lines 281-294
Close(c) ==
  /\ thrown = NoThrow
  /\ pc[c] # "closed"
  /\ pc' = [pc EXCEPT ![c] = "closed"]
  /\ IF HasStream(c)
     THEN LET us == Splice1(users, IndexOf(users, c))
              r == LeaveNotice(output, us, name[c], Throwing(sink, broken))
          IN /\ users' = us
             /\ output' = r.out
             /\ thrown' = Thrown(r, "left", c, Range(us))
     ELSE UNCHANGED <<users, output, thrown>>
  /\ UNCHANGED <<name, stream, sname, sink, answer, prompt, broken, nsubmit>>
  /\ UNCHANGED sanVars

\* the environment: from now on output.add of c's sink throws
SinkBreak(c) ==
  /\ thrown = NoThrow
  /\ pc[c] = "active"
  /\ c \notin broken
  /\ broken' = broken \cup {c}
  /\ UNCHANGED <<users, pc, name, stream, sname, output, sink, answer, prompt,
                 thrown, nsubmit>>
  /\ UNCHANGED sanVars

Next ==
  \/ \E c \in Conns, nick \in NameInputs, m \in Methods :
       Authentication(c, nick, m)
  \/ \E c \in Conns, nick \in NameInputs : RetryPrompt(c, <<nick>>)
  \/ \E c \in Conns : RetryPrompt(c, <<>>)
  \/ \E c \in Conns : Ready(c)
  \/ \E c \in Conns : Session(c)
  \/ \E c \in Conns : Shell(c)
  \/ \E c \in Conns, l \in SubmitLines : Submit(c, l)
  \/ \E c \in Conns : Close(c)

\* the chat server with sinks that accept every line
Spec == Init /\ [][Next]_vars

NextSinkFail == Next \/ \E c \in Conns : SinkBreak(c)

\* When a stream was ended by /quit the transport closes the channel and the
\* connection, so the close event of that connection is eventually emitted.
FairSpec ==
  Spec /\ \A c \in Conns : WF_vars(stream[c] = "ended" /\ Close(c))

\* the chat server with sinks whose add may start to throw
SpecSinkFail == Init /\ [][NextSinkFail]_vars

\* ------------------------------------------------ the line processing alone
\* Submitted lines: an optional head, a run of 'x' near MAX_MSG_LEN long (or
\* none), and up to MaxTok tokens: an escape sequence, a space, a letter, a
\* control character, the erase-line sequence.
Tokens ==
  { <<ESC, LBRACKET, 51, 49, 109>>, <<SPACE>>, <<97>>, <<7>>,
    <<ESC, LBRACKET, 75>> }

Heads == { <<>>, <<SPACE>>, <<ESC, LBRACKET, 49, 59, 51, 49, 109>> }

PadLens == {0} \cup ((MAX_MSG_LEN - PadSlack)..(MAX_MSG_LEN + PadSlack))

Pad(n) == [i \in 1..n |-> 120]

RECURSIVE TokenSeqs(_)
TokenSeqs(n) ==
  IF n = 0 THEN {<<>>}
  ELSE TokenSeqs(n - 1) \cup {s \o t : s \in TokenSeqs(n - 1), t \in Tokens}

SanInputs ==
  {h \o Pad(n) \o t : h \in Heads, n \in PadLens, t \in TokenSeqs(MaxTok)}

InitSan ==
  /\ InitChat
  /\ line \in SanInputs
  /\ body = <<>>
  /\ body2 = <<>>
  /\ sphase = "in"

\* lines 270-272 applied to the submitted line
Process ==
  /\ sphase = "in"
  /\ body' = ProcessLine(line)
  /\ sphase' = "out"
  /\ UNCHANGED <<line, body2>>
  /\ UNCHANGED chatVars

\* lines 270-272 applied to their own result
ProcessAgain ==
  /\ sphase = "out"
  /\ body2' = ProcessLine(body)
  /\ sphase' = "again"
  /\ UNCHANGED <<line, body>>
  /\ UNCHANGED chatVars

NextSan == Process \/ ProcessAgain

\* the processing of one submitted line, for every line of SanInputs
SpecSan == InitSan /\ [][NextSan]_vars

\* ======================================================= sanitizer claims
\* C4: the line processing (remove RE_SPECIAL matches, trim, cut to
\* MAX_MSG_LEN) is idempotent: processing the processed text again yields the
\* same text, also when the cut falls right after a whitespace character.
C4_Idempotent == sphase = "again" => body2 = body

\* The text the claim C5 describes: every control character and every
\* complete sequence ESC '[' parameters ('m' or 'K') is removed as a whole.
CompleteCsi(s, i) ==
  LET n == MatchCsi(s, i) IN IF n > 0 /\ At(s, i + n - 1) \in {109, 75} THEN n ELSE 0

RemovedAsWhole(s, i) ==
  IF CompleteCsi(s, i) > 0 THEN CompleteCsi(s, i)
  ELSE IF IsControl(At(s, i)) THEN 1 ELSE 0

RECURSIVE StripFrom(_, _)
StripFrom(s, i) ==
  IF i > Len(s) THEN <<>>
  ELSE LET j == CHOOSE j \in i..(Len(s) + 1) :
                  /\ j = Len(s) + 1 \/ RemovedAsWhole(s, j) > 0
                  /\ \A k \in i..(j - 1) : RemovedAsWhole(s, k) = 0
       IN IF j > Len(s) THEN SubSeq(s, i, Len(s))
          ELSE SubSeq(s, i, j - 1) \o StripFrom(s, j + RemovedAsWhole(s, j))

StripAnsi(s) == StripFrom(s, 1)

\* C5: the sanitized text is the input with all control characters and all
\* complete ANSI styling sequences removed as a whole (then trimmed and cut);
\* no tail of an escape sequence such as "[31m" is left in it.
C5_StripsWholeSequences ==
  sphase = "out" => body = Substring0(Trim(StripAnsi(line)), MAX_MSG_LEN)

\* C6: the message body handed to the broadcast has at most MAX_MSG_LEN
\* characters; an over-length line is cut to the first MAX_MSG_LEN characters
\* of its sanitized, trimmed text and is broadcast, not rejected.
C6_BodyAtMostMax ==
  sphase = "out" =>
    /\ Len(body) <= MAX_MSG_LEN
    /\ LET t == Trim(ReplaceSpecial(line))
       IN Len(t) > MAX_MSG_LEN =>
            /\ SubmitKind(body) = "broadcast"
            /\ body = [i \in 1..MAX_MSG_LEN |-> t[i]]

\* an over-length line has been processed and cut to exactly MAX_MSG_LEN
C6_Witness ==
  /\ sphase = "out"
  /\ Len(Trim(ReplaceSpecial(line))) > MAX_MSG_LEN
  /\ Len(line) > Len(Trim(ReplaceSpecial(line)))
  /\ Len(body) = MAX_MSG_LEN

\* ============================================================ chat claims
Members == Range(users)

Last(q) == q[Len(q)]

\* C1: the nicknames of the sessions in the registry are pairwise distinct
\* under case-insensitive comparison in every reachable state.
C1_NamesDistinct ==
  \A i, j \in 1..Len(users) :
    i # j => ToLowerCase(sname[users[i]]) # ToLowerCase(sname[users[j]])

\* C2: every session in the registry has a defined nickname of 1 to
\* MAX_NAME_LEN characters.
C2_NameLength ==
  \A i \in 1..Len(users) :
    /\ sname[users[i]] # Undefined
    /\ Len(sname[users[i]]) >= 1
    /\ Len(sname[users[i]]) <= MAX_NAME_LEN

\* a session is registered whose name, given as a prompt answer or as the
\* username, has exactly MAX_NAME_LEN characters
C2_Witness ==
  \E i \in 1..Len(users) : Len(sname[users[i]]) = MAX_NAME_LEN

\* C3: when the write to one member's sink fails, every other member the
\* fan-out would have reached is still written to.
C3_FanOutIsolated ==
  \A u \in thrown.reach : u \notin broken => u \in thrown.done

\* C7: a message broadcast by author c is appended exactly once to the sink
\* of every other member as "name: message" with c's name, exactly once to
\* c's own sink as "> message", and to no other sink.
C7_BroadcastDelivery ==
  [][\A c \in Conns, l \in SubmitLines :
       (Submit(c, l) /\ ProcessLine(l) \notin {<<>>, Str_quit, Str_exit}) =>
         \A u \in Conns :
           output'[u] =
             IF u = c
             THEN Append(output[u], Entry("echo", <<>>, ProcessLine(l), 0))
             ELSE IF u \in Members
             THEN Append(output[u], Entry("msg", sname[c], ProcessLine(l), 0))
             ELSE output[u]]_vars

\* a message was fanned out to its author and to another member
C7_Witness ==
  \E c \in Members, u \in Members :
    /\ u # c
    /\ Last(output[c]).t = "echo"
    /\ Last(output[u]) = Entry("msg", sname[c], Last(output[c]).body, 0)

\* C8: when session c is registered, the joined notice about c is appended
\* exactly once to the sink of every other member of that moment and not to
\* c's own sink, which gets the welcome only.
C8_JoinNotice ==
  [][\A c \in Conns :
       Shell(c) =>
         /\ users' = Append(users, c)
         /\ \A u \in Conns :
              output'[u] =
                IF u = c
                THEN Append(output[u],
                            Entry("welcome", <<>>, <<>>, Cardinality(Members)))
                ELSE IF u \in Members
                THEN Append(output[u], Entry("joined", name[c], <<>>, 0))
                ELSE output[u]]_vars

\* a session joined while another was a member, and that member was told
C8_Witness ==
  \E c \in Members, u \in Members :
    /\ u # c
    /\ Last(output[c]) = Entry("welcome", <<>>, <<>>, Len(users) - 1)
    /\ Last(output[u]) = Entry("joined", name[c], <<>>, 0)

\* C9: when a registered session c is removed at connection close, it is
\* removed before the notice is written: the left notice naming c is appended
\* to the sink of every member still in the registry and not to c's sink.
C9_LeaveNotice ==
  [][\A c \in Conns :
       (Close(c) /\ stream[c] # "undefined") =>
         /\ c \notin Range(users')
         /\ Range(users') = Members \ {c}
         /\ \A u \in Conns :
              output'[u] =
                IF u \in Members \ {c}
                THEN Append(output[u], Entry("left", name[c], <<>>, 0))
                ELSE output[u]]_vars

\* a registered session closed while another member remained, who was told
C9_Witness ==
  \E c \in Conns, u \in Members :
    /\ pc[c] = "closed"
    /\ stream[c] = "open"
    /\ c \notin Members
    /\ Last(output[u]) = Entry("left", name[c], <<>>, 0)

C11_RegistryIsActive ==
  /\ Members = {c \in Conns : pc[c] = "active"}
  /\ Cardinality(Members) = Len(users)
  /\ \A c \in Members :
       answer[c] = "accept" /\ name[c] # Undefined /\ stream[c] # "undefined"

\* one session is registered, one that was registered has closed and is out
C11_Witness ==
  \E c \in Conns, d \in Conns :
    /\ pc[c] = "active" /\ c \in Members
    /\ pc[d] = "closed" /\ stream[d] # "undefined" /\ d \notin Members

\* The checks of a candidate name as the specification words them: the two
\* names are compared with their capital letters folded to small ones.
FoldCase(ch) == IF ch \in 65..90 THEN ch + 32 ELSE ch

SameName(a, b) ==
  Len(a) = Len(b) /\ \A i \in 1..Len(a) : FoldCase(a[i]) = FoldCase(b[i])

Taken(nick) == \E u \in Members : SameName(sname[u], nick)

Reason(nick) ==
  IF Len(nick) = 0 THEN "required"
  ELSE IF Len(nick) > MAX_NAME_LEN THEN "too long"
  ELSE IF Taken(nick) THEN "in use"
  ELSE "none"

\* C12: when the method offered is not keyboard-interactive and the
\* candidate name fails a check, the attempt is rejected at once: no prompt
\* is issued, the connection's name stays unset and it stays unauthenticated.
C12_RejectWithoutPrompt ==
  [][\A c \in Conns, nick \in NameInputs, m \in Methods :
       (/\ Authentication(c, nick, m)
        /\ m # "keyboard-interactive"
        /\ Reason(nick) # "none") =>
         /\ answer'[c] = "reject"
         /\ prompt[c] = "none" /\ prompt' = prompt
         /\ name[c] = Undefined /\ name' = name
         /\ pc'[c] = "connecting"]_vars

\* an attempt was rejected while a member was registered: the connection has
\* no name, no prompt and is still unauthenticated
C12_Witness ==
  \E c \in Conns :
    /\ answer[c] = "reject"
    /\ pc[c] = "connecting"
    /\ name[c] = Undefined
    /\ prompt[c] = "none"
    /\ Members # {}

\* C13 as stated: a connection leaves the retry loop only accepted or
\* closed, and no step of a prompted connection answers with a rejection.
C13_OnlyAcceptOrClose ==
  [][\A c \in Conns :
       pc[c] = "prompting" =>
         /\ pc'[c] \in {"prompting", "authenticated", "closed"}
         /\ answer'[c] # "reject"]_vars

\* C13, amended: a connection leaves the retry loop accepted, closed, or
\* rejected by a reply that carries no answer at all; a reply whose answer
\* fails a check is prompted again and never rejected, and a reply whose
\* answer passes the three checks is accepted under that name.
C13_RetryLoop ==
  [][\A c \in Conns :
       /\ (pc[c] = "prompting" /\ pc'[c] # "prompting") =>
            \/ pc'[c] = "authenticated" /\ answer'[c] = "accept"
            \/ pc'[c] = "closed"
            \/ RetryPrompt(c, <<>>) /\ answer'[c] = "reject"
       /\ \A nick \in NameInputs :
            RetryPrompt(c, <<nick>>) =>
              IF Reason(nick) # "none"
              THEN /\ answer'[c] = "prompt"
                   /\ pc'[c] = "prompting"
                   /\ name' = name
              ELSE /\ answer'[c] = "accept"
                   /\ pc'[c] = "authenticated"
                   /\ name'[c] = nick]_vars

\* a connection is in the retry loop, told that the name it gave is in use
\* by a session of the registry
C13_Witness ==
  \E c \in Conns :
    /\ pc[c] = "prompting"
    /\ answer[c] = "prompt"
    /\ prompt[c] = "in use"
    /\ \E u \in Members : u # c

\* ------------------------------------------------------------- fan-out
\* the sinks a step writes to
Written == {u \in Conns : output'[u] # output[u]}

\* C14: every handler runs to its end before another starts, so a fan-out
\* is one step: the sinks it writes to are exactly the members of the
\* registry as that step leaves it, each gets one line, a sink of a session
\* that is not (or no longer) registered gets none, and the registry changes
\* only in the step of a shell request or of a close, not inside a broadcast.
C14_SnapshotFanOut ==
  [][/\ Written \subseteq Range(users')
     /\ Written # {} => Written = Range(users')
     /\ \A u \in Written : output'[u] = Append(output[u], Last(output'[u]))
     /\ users' # users => \E c \in Conns : Shell(c) \/ Close(c)
     /\ \A c \in Conns, l \in SubmitLines : Submit(c, l) => users' = users]_vars

\* a session took part in a broadcast while registered, then closed: the
\* remaining member holds the left notice and the closed session's sink
\* still ends with the broadcast line
C14_Witness ==
  \E c \in Conns, u \in Members :
    /\ pc[c] = "closed" /\ c \notin Members /\ u # c
    /\ output[c] # <<>>
    /\ Last(output[c]).t \in {"echo", "msg"}
    /\ Last(output[u]) = Entry("left", name[c], <<>>, 0)
    /\ Len(output[u]) >= 2
    /\ output[u][Len(output[u]) - 1].body = Last(output[c]).body

\* C15: an initial candidate name of 1 to MAX_NAME_LEN characters that no
\* registered session bears (capitals folded) is accepted in the step of the
\* authentication request itself, under exactly that name, with no prompt
\* issued before or by that step, whatever the authentication method.
C15_AcceptAtOnce ==
  [][\A c \in Conns, nick \in NameInputs, m \in Methods :
       (/\ Authentication(c, nick, m)
        /\ Len(nick) \in 1..MAX_NAME_LEN
        /\ ~Taken(nick)) =>
         /\ answer'[c] = "accept"
         /\ name'[c] = nick
         /\ pc'[c] = "authenticated"
         /\ prompt[c] = "none" /\ prompt'[c] = "none"]_vars

\* a connection stands accepted under a ten-character name while a session
\* with a different name is registered
C15_Witness ==
  \E c \in Conns, u \in Members :
    /\ pc[c] = "authenticated"
    /\ answer[c] = "accept"
    /\ prompt[c] = "none"
    /\ name[c] = Str_ten
    /\ sname[u] = Str_Alice

\* C16: with keyboard-interactive every prompt names the reason for which
\* the candidate checked last failed (empty: a nickname is required; longer
\* than MAX_NAME_LEN: too long; borne by a registered session, capitals
\* folded: already in use), for the initial candidate and for every answer
\* alike, and an answer that passes is accepted and becomes the name.
C16_PromptNamesReason ==
  [][\A c \in Conns, nick \in NameInputs :
       /\ (/\ Authentication(c, nick, "keyboard-interactive")
           /\ Reason(nick) # "none") =>
            /\ answer'[c] = "prompt"
            /\ prompt'[c] = Reason(nick)
            /\ pc'[c] = "prompting"
       /\ RetryPrompt(c, <<nick>>) =>
            IF Reason(nick) # "none"
            THEN /\ answer'[c] = "prompt"
                 /\ prompt'[c] = Reason(nick)
                 /\ pc'[c] = "prompting"
            ELSE /\ answer'[c] = "accept"
                 /\ name'[c] = nick
                 /\ prompt'[c] = "none"]_vars

\* one connection is told that a nickname is required while another is told
\* that its nickname is too long
C16_Witness ==
  \E c \in Conns, d \in Conns :
    /\ pc[c] = "prompting" /\ prompt[c] = "required"
    /\ pc[d] = "prompting" /\ prompt[d] = "too long"

\* ------------------------------------------------------- frame conditions
\* C17: the close of a connection whose shell was never established, and
\* the rejection of an authentication attempt, leave the registry and every
\* sink as they were: nothing is removed and no left notice is written.
C17_NoShellNoTrace ==
  [][\A c \in Conns :
       /\ (Close(c) /\ stream[c] = "undefined") =>
            /\ users' = users
            /\ output' = output
            /\ pc'[c] = "closed"
       /\ (/\ answer'[c] = "reject"
           /\ \/ \E nick \in NameInputs, m \in Methods : Authentication(c, nick, m)
              \/ RetryPrompt(c, <<>>)) =>
            /\ users' = users
            /\ output' = output]_vars

\* a connection accepted under a name has closed without a shell while a
\* session was registered, whose sink holds no left notice
C17_Witness ==
  \E c \in Conns, u \in Members :
    /\ pc[c] = "closed"
    /\ stream[c] = "undefined"
    /\ name[c] # Undefined
    /\ \A i \in 1..Len(output[u]) : output[u][i].t # "left"

\* C18: a submitted line that is empty after the removal of control
\* characters, trimming and truncation is discarded: no sink is written to,
\* the author's included, and the registry, the author's stream and every
\* connection's state stay as they were.
C18_EmptyLineDiscarded ==
  [][\A c \in Conns, l \in SubmitLines :
       (Submit(c, l) /\ Len(ProcessLine(l)) = 0) =>
         /\ output' = output
         /\ users' = users
         /\ stream' = stream
         /\ pc' = pc
         /\ name' = name /\ sname' = sname
         /\ thrown' = thrown]_vars

\* a line was submitted by a registered session and left no trace: no sink
\* holds a message and no stream was ended
C18_Witness ==
  /\ nsubmit >= 1
  /\ Members # {}
  /\ \A c \in Conns :
       /\ stream[c] # "ended"
       /\ \A i \in 1..Len(output[c]) : output[c][i].t \notin {"echo", "msg"}

\* C19: the close handler runs its splice only for a session that is in the
\* registry, and the splice takes out exactly that session and leaves the
\* others in their order; a session leaves the registry only in the step of
\* its own close, and once it has left it is never in the registry again.
C19_RemovedOnceByOwnClose ==
  [][\A c \in Conns :
       /\ (Close(c) /\ stream[c] # "undefined") =>
            /\ c \in Members
            /\ users' = SelectSeq(users, LAMBDA u : u # c)
            /\ Len(users') = Len(users) - 1
       /\ (c \in Members /\ c \notin Range(users')) => Close(c)
       /\ (c \notin Members /\ stream[c] # "undefined") =>
            c \notin Range(users')]_vars

\* the session registered first has closed while the one registered after it
\* remains: the splice took out an element that was not the last
C19_Witness ==
  \E c \in Conns, u \in Conns :
    /\ users = <<u>>
    /\ pc[c] = "closed" /\ stream[c] # "undefined"
    /\ \E i \in 1..Len(output[c]) :
         output[c][i] = Entry("joined", name[u], <<>>, 0)

\* C20: in every state in which a handler can start, each session of the
\* registry has its sink assigned, although the shell handler pushes the
\* stream before it creates the sink: the two happen in one handler, no loop
\* over the registry meets a stream without a sink, and no such loop has
\* thrown for want of one.
C20_MembersHaveSinks ==
  /\ \A u \in Members : u \in sink
  /\ Throwing(sink, {}) \cap Members = {}
  /\ thrown = NoThrow

\* two sessions are registered with their sinks, and the handler of the one
\* that came second has written its join notice into the sink of the first
C20_Witness ==
  \E c \in Members, u \in Members :
    /\ u # c
    /\ {c, u} \subseteq sink
    /\ users = <<u, c>>
    /\ \E i \in 1..Len(output[u]) :
         output[u][i] = Entry("joined", name[c], <<>>, 0)

====
